---- MODULE Spec2Model ----
(***************************************************************************)
(* A model of ansys.tools.versioning.utils: version components             *)
(* (VersionNumber / VersionMeta), the string <-> tuple conversions, the    *)
(* comparator server_meets_version, SemanticVersion and the                *)
(* requires_version decorator; and of the comparator of the module under   *)
(* its former name, ansys.helpers.versioning.utils.                        *)
(*                                                                         *)
(* Python values are modelled as records:                                  *)
(*   int            [kind |-> "int",   v |-> n, s |-> <<>>]                *)
(*   str            [kind |-> "str",   v |-> 0, s |-> <<chars>>]           *)
(*   myint, mystr   the same with kind "myint" / "mystr"                   *)
(*   tuple          [kind |-> "tuple", t |-> <<values>>]                   *)
(*   object         [kind |-> "obj", has |-> BOOLEAN, attr |-> value]      *)
(*   dict           [kind |-> "dict", items |-> {<<key, value>>}]           *)
(*   True, False    [kind |-> "bool", b |-> BOOLEAN];  None [kind |-> "None"]*)
(* Text is a sequence of one-character strings, so that split, join,       *)
(* strip, int() and str() are computed character by character.             *)
(* The outcome of a call is [tag |-> "ok", val |-> value] or               *)
(* [tag |-> "raise", val |-> exception class name], with a field msg where  *)
(* the message of the exception is modelled.                               *)
(***************************************************************************)
EXTENDS Integers, Sequences, FiniteSets, TLC

VARIABLES
    pc,                 \* the operation applied last ("start" before any)
    func,               \* guard: name of the decorated method
    min_arg,            \* guard: the version given to requires_version
    VERSION_MAP,        \* guard: the map given to requires_version, or None
    min_version,        \* guard: min_arg as normalized at declaration
    instance,           \* guard: the object the method is called on
    call_args,          \* guard: arguments of the last call
    outcome,            \* guard: outcome of the declaration or of the last call
    invoked,            \* guard: how often the last call ran the wrapped method
    comparisons,        \* guard: how often the last call compared versions
    server_version,     \* comparator: first argument
    required_version,   \* comparator: second argument
    result,             \* comparator: outcome of the operation
    input_version,      \* conversions: the value given
    sanitized,          \* conversions: outcome of padding it, None when skipped
    converted,          \* conversions: outcome of converting to the other form
    restored,           \* conversions: outcome of converting back
    resanitized,        \* conversions: outcome of padding the padded value again
    __iterable,         \* construction: the positional argument, or None
    keywords,           \* construction: the arguments major, minor and patch
    constructed         \* construction: outcome of SemanticVersion(...)

comparatorVars == <<server_version, required_version, result>>
conversionVars == <<input_version, sanitized, converted, restored, resanitized>>
constructionVars == <<__iterable, keywords, constructed>>
guardConfig == <<func, min_arg, VERSION_MAP, instance>>
guardVars == <<guardConfig, min_version, call_args, outcome, invoked, comparisons>>
vars == <<pc, comparatorVars, conversionVars, guardVars, constructionVars>>

----------------------------------------------------------------------------
(* Outcomes of calls *)

Ok(v) == [tag |-> "ok", val |-> v]
Raise(e) == [tag |-> "raise", val |-> e]
RaiseWith(e, message) == [tag |-> "raise", val |-> e, msg |-> message]
NotImplemented == [tag |-> "notimplemented", val |-> "NotImplemented"]
None == [kind |-> "None"]
True == [kind |-> "bool", b |-> TRUE]
False == [kind |-> "bool", b |-> FALSE]

IsOk(r) == r.tag = "ok"
Raises(r, e) == r.tag = "raise" /\ r.val = e

----------------------------------------------------------------------------
(* Python values *)

PyInt(n) == [kind |-> "int", v |-> n, s |-> <<>>]
PyStr(s) == [kind |-> "str", v |-> 0, s |-> s]
myint(n) == [kind |-> "myint", v |-> n, s |-> <<>>]
mystr(s) == [kind |-> "mystr", v |-> 0, s |-> s]
PyTuple(t) == [kind |-> "tuple", t |-> t]

\* isinstance(x, str) and isinstance(x, int): mystr subclasses str, myint int
IsStr(x) == x.kind \in {"str", "mystr"}
IsInt(x) == x.kind \in {"int", "myint"}
IsVersionMeta(x) == x.kind \in {"myint", "mystr"}

----------------------------------------------------------------------------
(* Python text operations, character by character *)

Digits == <<"0", "1", "2", "3", "4", "5", "6", "7", "8", "9">>
DigitChars == {Digits[i] : i \in 1..10}
Whitespace == {" "}
DEV == <<"d", "e", "v">>

DigitValue(c) == (CHOOSE i \in 1..10 : Digits[i] = c) - 1

\* str.isdigit()
isdigit(s) == Len(s) > 0 /\ \A i \in 1..Len(s) : s[i] \in DigitChars

\* str.strip()
RECURSIVE lstrip(_)
lstrip(s) == IF s # <<>> /\ s[1] \in Whitespace THEN lstrip(Tail(s)) ELSE s
RECURSIVE rstrip(_)
rstrip(s) ==
    IF s # <<>> /\ s[Len(s)] \in Whitespace THEN rstrip(SubSeq(s, 1, Len(s) - 1)) ELSE s
strip(s) == rstrip(lstrip(s))

\* int(s) for a text of decimal digits
RECURSIVE ParseInt(_)
ParseInt(s) ==
    IF s = <<>> THEN 0
    ELSE 10 * ParseInt(SubSeq(s, 1, Len(s) - 1)) + DigitValue(s[Len(s)])

\* str(n) for an integer
RECURSIVE NatToText(_)
NatToText(n) ==
    IF n < 10 THEN <<Digits[n + 1]>>
    ELSE NatToText(n \div 10) \o <<Digits[(n % 10) + 1]>>
IntToText(n) == IF n < 0 THEN <<"-">> \o NatToText(0 - n) ELSE NatToText(n)

\* str.lower()
LowerChar(c) ==
    CASE c = "D" -> "d"
      [] c = "E" -> "e"
      [] c = "V" -> "v"
      [] c = "A" -> "a"
      [] OTHER -> c
lower(s) == [i \in 1..Len(s) |-> LowerChar(s[i])]

\* "dev" in s
RECURSIVE HasDev(_)
HasDev(s) ==
    IF Len(s) < 3 THEN FALSE
    ELSE IF SubSeq(s, 1, 3) = DEV THEN TRUE
    ELSE HasDev(Tail(s))

\* s.replace("dev", ""): leftmost non-overlapping occurrences are removed
RECURSIVE RemoveDev(_)
RemoveDev(s) ==
    IF Len(s) < 3 THEN s
    ELSE IF SubSeq(s, 1, 3) = DEV THEN RemoveDev(SubSeq(s, 4, Len(s)))
    ELSE <<s[1]>> \o RemoveDev(Tail(s))

\* s.replace(".", "")
RemoveDots(s) == SelectSeq(s, LAMBDA c : c # ".")

\* s.split("."): always at least one piece
RECURSIVE SplitFrom(_, _)
SplitFrom(s, cur) ==
    IF s = <<>> THEN <<cur>>
    ELSE IF s[1] = "." THEN <<cur>> \o SplitFrom(Tail(s), <<>>)
    ELSE SplitFrom(Tail(s), Append(cur, s[1]))
split(s) == SplitFrom(s, <<>>)

\* ".".join(pieces)
RECURSIVE join(_)
join(pieces) ==
    IF pieces = <<>> THEN <<>>
    ELSE IF Len(pieces) = 1 THEN pieces[1]
    ELSE pieces[1] \o <<".">> \o join(Tail(pieces))

\* str(x) of a component: int.__repr__ for integers, the text itself for text
str(x) == IF IsInt(x) THEN IntToText(x.v) ELSE x.s

----------------------------------------------------------------------------
(* VersionMeta: the rich comparison methods shared by myint and mystr *)

IntCompare(op, a, b) ==
    CASE op = "lt" -> a < b
      [] op = "le" -> a <= b
      [] op = "gt" -> a > b
      [] op = "ge" -> a >= b
      [] op = "eq" -> a = b
      [] op = "ne" -> a # b

\* int.__op__ and str.__op__ as reached through super() or on plain values:
\* an operand of the other type is not handled.  Ordering of two plain texts
\* is not used by the program and is left undefined here.
Builtin(op, self, x) ==
    CASE IsInt(self) /\ IsInt(x) -> Ok(IntCompare(op, self.v, x.v))
      [] IsStr(self) /\ IsStr(x) /\ op = "eq" -> Ok(self.s = x.s)
      [] IsStr(self) /\ IsStr(x) /\ op = "ne" -> Ok(self.s # x.s)
      [] IsInt(self) # IsInt(x) -> NotImplemented

\* Variant without the check for two 'dev' operands
OrderingMethodUnguarded(op, against_dev, self, x) ==
    IF IsStr(x)
    THEN IF HasDev(x.s) THEN Ok(against_dev) ELSE Raise("ValueError")
    ELSE Builtin(op, self, x)

\* The body shared by __le__, __lt__, __ge__ and __gt__; against_dev is the
\* constant the method returns when the other operand is a 'dev' text.
OrderingMethod(op, against_dev, self, x) ==
    IF IsStr(x)
    THEN IF HasDev(x.s) /\ IsStr(self) /\ HasDev(self.s) THEN Raise("ValueError")
         ELSE IF HasDev(x.s) THEN Ok(against_dev)
         ELSE Raise("ValueError")
    ELSE Builtin(op, self, x)

\* Variants that return the constant of the opposite method against a dev text
le_AgainstDevFalse(self, x) == OrderingMethod("le", FALSE, self, x)
lt_AgainstDevFalse(self, x) == OrderingMethod("lt", FALSE, self, x)

__le__(self, x) == OrderingMethod("le", TRUE, self, x)
__lt__(self, x) == OrderingMethod("lt", TRUE, self, x)
__ge__(self, x) == OrderingMethod("ge", FALSE, self, x)
__gt__(self, x) == OrderingMethod("gt", FALSE, self, x)

__eq__(self, x) ==
    IF IsStr(self) /\ IsStr(x) /\ HasDev(self.s) /\ HasDev(x.s) THEN Ok(self.s = x.s)
    ELSE IF IsStr(x) THEN Ok(FALSE)
    ELSE Builtin("eq", self, x)

__ne__(self, x) ==
    IF IsStr(x) THEN Ok(~ __eq__(self, x).val)
    ELSE Builtin("ne", self, x)

\* The method that type(self) provides for an operator
Method(op, self, x) ==
    IF IsVersionMeta(self)
    THEN CASE op = "le" -> __le__(self, x)
           [] op = "lt" -> __lt__(self, x)
           [] op = "ge" -> __ge__(self, x)
           [] op = "gt" -> __gt__(self, x)
           [] op = "eq" -> __eq__(self, x)
           [] op = "ne" -> __ne__(self, x)
    ELSE Builtin(op, self, x)

Reflected(op) ==
    CASE op = "lt" -> "gt"
      [] op = "gt" -> "lt"
      [] op = "le" -> "ge"
      [] op = "ge" -> "le"
      [] op = "eq" -> "eq"
      [] op = "ne" -> "ne"

\* The interpreter's evaluation of "a op b": the left operand's method first,
\* then the right operand's reflected method when the first does not handle
\* the pair; the right operand goes first when its type is a subclass of the
\* left operand's type (a myint against an int, a mystr against a str).
RightFirst(a, b) == IsVersionMeta(b) /\ ~ IsVersionMeta(a) /\ (IsInt(a) <=> IsInt(b))

\* The result of "a op b" from the outcomes of the method tried first and of
\* the method tried second
Resolve(op, first, second) ==
    IF first.tag # "notimplemented" THEN first
    ELSE IF second.tag # "notimplemented" THEN second
    ELSE CASE op = "eq" -> Ok(FALSE)
           [] op = "ne" -> Ok(TRUE)
           [] OTHER -> Raise("TypeError")

Compare(op, a, b) ==
    IF RightFirst(a, b)
    THEN Resolve(op, Method(Reflected(op), b, a), Method(op, a, b))
    ELSE Resolve(op, Method(op, a, b), Method(Reflected(op), b, a))

Operators == {"lt", "le", "gt", "ge", "eq", "ne"}

----------------------------------------------------------------------------
(* VersionNumber and the validity checks *)

valid_version_string(version) ==
    IF IsStr(version)
       /\ (\/ isdigit(RemoveDots(RemoveDev(lower(version.s))))
           \/ lower(version.s) = DEV)
    THEN TRUE
    ELSE IF IsInt(version) THEN TRUE
    ELSE FALSE

\* Variant that keeps digit text as text instead of converting it
VersionNumberKeepsText(value) ==
    IF IsStr(value)
    THEN IF valid_version_string(value) THEN Ok(mystr(value.s)) ELSE Raise("ValueError")
    ELSE IF IsInt(value) THEN Ok(myint(value.v))
    ELSE Ok(None)

\* VersionNumber.__new__
VersionNumber(value) ==
    IF IsStr(value)
    THEN IF isdigit(strip(value.s)) THEN Ok(myint(ParseInt(strip(value.s))))
         ELSE IF valid_version_string(value) THEN Ok(mystr(value.s))
         ELSE Raise("ValueError")
    ELSE IF IsInt(value) THEN Ok(myint(value.v))
    ELSE Ok(None)

\* One more item of a sequence that is built item by item: the first
\* exception ends it
Prepend(head, rest) ==
    IF ~ IsOk(head) THEN head
    ELSE IF ~ IsOk(rest) THEN rest
    ELSE Ok(<<head.val>> \o rest.val)

\* [VersionNumber(num) for num in seq]
RECURSIVE VersionNumbers(_)
VersionNumbers(seq) ==
    IF seq = <<>> THEN Ok(<<>>)
    ELSE Prepend(VersionNumber(seq[1]), VersionNumbers(Tail(seq)))

NotNegative(num) == Compare("ge", num, myint(0))

\* all() of one more item: stops at the first False or at the first exception
AndAll(head, rest) ==
    IF ~ IsOk(head) THEN head
    ELSE IF ~ head.val THEN Ok(FALSE)
    ELSE rest

\* all(num >= VersionNumber(0) for num in seq)
RECURSIVE AllNotNegative(_)
AllNotNegative(seq) ==
    IF seq = <<>> THEN Ok(TRUE)
    ELSE AndAll(NotNegative(seq[1]), AllNotNegative(Tail(seq)))

\* A variant that appends a single zero
PadOnce(version_list, zero) ==
    IF Len(version_list) < 3 THEN Append(version_list, zero) ELSE version_list

\* while len(version_list) < 3: version_list.append(zero)
RECURSIVE PadTo3(_, _)
PadTo3(version_list, zero) ==
    IF Len(version_list) < 3 THEN PadTo3(Append(version_list, zero), zero)
    ELSE version_list

----------------------------------------------------------------------------
(* Conversions *)

sanitize_version_string(version_string) ==
    PyStr(join(PadTo3(split(version_string.s), <<"0">>)))

\* while len(version_list) < 3: version_list.append(0), on the outcome of
\* converting the items
Padded(version_list) ==
    IF ~ IsOk(version_list) THEN version_list
    ELSE Ok(PyTuple(PadTo3(version_list.val, myint(0))))

\* list(version_tuple) of a value that is not iterable raises TypeError
sanitize_version_tuple(version_tuple) ==
    IF version_tuple.kind # "tuple" THEN Raise("TypeError")
    ELSE Padded(VersionNumbers(version_tuple.t))

\* version_string.split(".") as a sequence of str values
Pieces(text) == [i \in 1..Len(split(text)) |-> PyStr(split(text)[i])]

\* The check that all numbers are positive, and the return statement;
\* caught is the exception that leaves the try block for a ValueError
CheckPositive(version_tuple, positive, caught) ==
    IF Raises(positive, "ValueError") THEN Raise(caught)
    ELSE IF ~ IsOk(positive) THEN positive
    ELSE IF ~ positive.val THEN Raise(caught)
    ELSE sanitize_version_tuple(PyTuple(version_tuple.val))

\* The try block on the outcome of mapping VersionNumber over the pieces
TryVersionTuple(version_tuple, caught) ==
    IF Raises(version_tuple, "ValueError") THEN Raise(caught)
    ELSE IF ~ IsOk(version_tuple) THEN version_tuple
    ELSE CheckPositive(version_tuple, AllNotNegative(version_tuple.val), caught)

\* Variant without the except clause: the ValueError reaches the caller
version_string_as_tuple_Uncaught(version_string) ==
    TryVersionTuple(VersionNumbers(Pieces(version_string.s)), "ValueError")

version_string_as_tuple(version_string) ==
    TryVersionTuple(VersionNumbers(Pieces(version_string.s)), "VersionSyntaxError")

MaxDevLen == 6

ValidTupleEntry(num) ==
    \/ IsInt(num) /\ Compare("ge", num, PyInt(0)).val
    \/ IsStr(num) /\ HasDev(num.s) /\ Len(num.s) <= MaxDevLen

version_tuple_as_string(version_tuple) ==
    IF ~ \A i \in 1..Len(version_tuple.t) : ValidTupleEntry(version_tuple.t[i])
    THEN Raise("VersionSyntaxError")
    ELSE Ok(sanitize_version_string(
                PyStr(join([i \in 1..Len(version_tuple.t) |-> str(version_tuple.t[i])]))))

----------------------------------------------------------------------------
(* server_meets_version *)

Min(a, b) == IF a < b THEN a ELSE b

\* Variant of the loop body: a lower component fails the check, whatever
\* precedes it
AnyLower(is_lower, continued) ==
    IF ~ IsOk(is_lower) THEN is_lower
    ELSE IF is_lower.val THEN Ok(False)
    ELSE continued

RECURSIVE MeetsLoopAnyLower(_, _, _)
MeetsLoopAnyLower(server, required, ith_num) ==
    IF ith_num > Min(Len(server), Len(required)) THEN Ok(True)
    ELSE AnyLower(Compare("lt", server[ith_num], required[ith_num]),
                  MeetsLoopAnyLower(server, required, ith_num + 1))

\* Variant of the loop body in which the remaining iterations are made
\* before the numbers at hand decide
LoopBodyEager(is_equal, is_higher, is_lower, ith_num, continued) ==
    IF ~ IsOk(continued) THEN continued
    ELSE IF ~ IsOk(is_equal) THEN is_equal
    ELSE IF is_equal.val /\ ith_num # 3 THEN continued
    ELSE IF is_equal.val /\ ith_num = 3 THEN Ok(True)
    ELSE IF ~ IsOk(is_higher) THEN is_higher
    ELSE IF is_higher.val THEN Ok(True)
    ELSE IF ~ IsOk(is_lower) THEN is_lower
    ELSE IF is_lower.val THEN Ok(False)
    ELSE continued

\* The body of the for loop, from the outcomes of ==, > and < on the two
\* numbers; continued is the outcome of the remaining iterations
LoopBody(is_equal, is_higher, is_lower, ith_num, continued) ==
    IF ~ IsOk(is_equal) THEN is_equal
    ELSE IF is_equal.val /\ ith_num # 3 THEN continued
    ELSE IF is_equal.val /\ ith_num = 3 THEN Ok(True)
    ELSE IF ~ IsOk(is_higher) THEN is_higher
    ELSE IF is_higher.val THEN Ok(True)
    ELSE IF ~ IsOk(is_lower) THEN is_lower
    ELSE IF is_lower.val THEN Ok(False)
    ELSE continued

\* The for loop over enumerate(zip(server_version, required_version), start=1)
RECURSIVE MeetsLoop(_, _, _)
MeetsLoop(server, required, ith_num) ==
    IF ith_num > Min(Len(server), Len(required)) THEN Ok(None)
    ELSE LoopBody(Compare("eq", server[ith_num], required[ith_num]),
                  Compare("gt", server[ith_num], required[ith_num]),
                  Compare("lt", server[ith_num], required[ith_num]),
                  ith_num,
                  MeetsLoop(server, required, ith_num + 1))

\* version_string_as_tuple(version) if isinstance(version, str)
\* else sanitize_version_tuple(version)
Sanitize(version) ==
    IF IsStr(version) THEN version_string_as_tuple(version)
    ELSE sanitize_version_tuple(version)

\* The loop on the two sanitized versions; an exception of the
\* sanitization, of the server version first, ends the call
CompareSanitized(server, required) ==
    IF ~ IsOk(server) THEN server
    ELSE IF ~ IsOk(required) THEN required
    ELSE MeetsLoop(server.val.t, required.val.t, 1)

\* Variant without the lookup of the attribute: only a string or a tuple is
\* accepted as the server version
server_meets_version_NoAttribute(server_version_arg, required_version_arg) ==
    IF server_version_arg.kind \in {"str", "mystr", "tuple"}
    THEN CompareSanitized(Sanitize(server_version_arg), Sanitize(required_version_arg))
    ELSE Raise("ValueError")

server_meets_version(server_version_arg, required_version_arg) ==
    IF server_version_arg.kind \in {"str", "mystr", "tuple"}
    THEN CompareSanitized(Sanitize(server_version_arg), Sanitize(required_version_arg))
    ELSE IF server_version_arg.kind = "obj" /\ server_version_arg.has
    THEN CompareSanitized(Sanitize(server_version_arg.attr), Sanitize(required_version_arg))
    ELSE Raise("ValueError")

----------------------------------------------------------------------------
(* SemanticVersion *)

\* bool(x) of None, a bool, an integer, a text or a dict
Truthy(x) ==
    CASE x.kind = "None" -> FALSE
      [] x.kind = "bool" -> x.b
      [] IsInt(x) -> x.v # 0
      [] IsStr(x) -> x.s # <<>>
      [] x.kind = "dict" -> x.items # {}
      [] OTHER -> TRUE

valid_semantic_version(iterable) ==
    LET valid_major_minor ==
            \A i \in 1..2 : IsInt(iterable[i]) \/ (IsStr(iterable[i]) /\ isdigit(iterable[i].s))
        valid_patch == valid_version_string(iterable[3])
    IN  IF valid_major_minor /\ valid_patch THEN TRUE ELSE FALSE

\* tuple(VersionNumber(i) for i in __iterable)
AsTuple(numbers) == IF ~ IsOk(numbers) THEN numbers ELSE Ok(PyTuple(numbers.val))

\* The checks on the three components, and the construction
FromComponents(components) ==
    IF Len(components) # 3 THEN Raise("ValueError")
    ELSE IF ~ valid_semantic_version(components) THEN Raise("ValueError")
    ELSE AsTuple(VersionNumbers(components))

\* The part of __new__ that follows the handling of the keyword arguments
FromIterable(iterable) ==
    IF IsStr(iterable)
    THEN IF ~ valid_version_string(iterable) THEN Raise("ValueError")
         ELSE FromComponents(Pieces(iterable.s))
    ELSE FromComponents(iterable.t)

\* SemanticVersion.__new__(cls, __iterable=None, major=None, minor=None, patch=None)
SemanticVersion(iterable_arg, major, minor, patch) ==
    IF iterable_arg # None THEN FromIterable(iterable_arg)
    ELSE IF Truthy(major) /\ Truthy(minor) /\ Truthy(patch)
    THEN FromIterable(PyTuple(<<major, minor, patch>>))
    ELSE Raise("ValueError")

\* tuple rich comparison: the first index whose items are not equal decides;
\* 0 when one tuple is a prefix of the other
RECURSIVE FirstDifference(_, _, _)
FirstDifference(a, b, i) ==
    IF i > Min(Len(a), Len(b)) THEN 0
    ELSE IF ~ Compare("eq", a[i], b[i]).val THEN i
    ELSE FirstDifference(a, b, i + 1)

\* ... given the index i of the first difference
TupleCompareAt(op, a, b, i) ==
    IF i = 0 THEN Ok(IntCompare(op, Len(a), Len(b)))
    ELSE IF op = "eq" THEN Ok(FALSE)
    ELSE IF op = "ne" THEN Ok(TRUE)
    ELSE Compare(op, a[i], b[i])

\* A variant in which the last items decide
TupleCompare_LastItem(op, a, b) == TupleCompareAt(op, a.t, b.t, Len(a.t))

TupleCompare(op, a, b) == TupleCompareAt(op, a.t, b.t, FirstDifference(a.t, b.t, 1))

----------------------------------------------------------------------------
(* requires_version *)

\* An object with a _server_version attribute, and the same after delattr
MockupServer(version) == [kind |-> "obj", has |-> TRUE, attr |-> version]
WithoutServerVersion == [kind |-> "obj", has |-> FALSE, attr |-> None]

\* hasattr(self, "_server_version")
hasattr(self) == self.has

\* A dict, as the set of its (key, value) items
PyDict(items) == [kind |-> "dict", items |-> items]

\* mapping[key] for a tuple key: the value stored under an equal key, or
\* KeyError
getitem(mapping, key) ==
    IF \E item \in mapping.items : TupleCompare("eq", item[1], key).val
    THEN Ok((CHOOSE item \in mapping.items : TupleCompare("eq", item[1], key).val)[2])
    ELSE Raise("KeyError")

\* The two backquote characters that enclose a name in the messages
Backquotes == <<"BACKQUOTE", "BACKQUOTE">>

\* The f-string of the VersionError: the name of the method between
\* backquotes, and the required version or its label
VersionErrorMessage(name, required) ==
    <<"Class method ", Backquotes, name, Backquotes,
      " requires server version >= ", required, ".">>

AttributeErrorMessage ==
    <<"Decorated class method must have ", Backquotes, "_server_version",
      Backquotes, " attribute.">>

\* The message of the AttributeError that reading a missing attribute raises
MissingAttributeMessage ==
    <<"'MockupServer' object has no attribute '_server_version'">>

\* decorator(func): the minimum version, sanitized
decorator(version) ==
    IF version.kind = "tuple" THEN sanitize_version_tuple(version)
    ELSE version_string_as_tuple(version)

\* What one call of wrapper did: its outcome, the calls it made of the
\* wrapped method, and how often it called server_meets_version
Trace(r, made, compared) ==
    [outcome |-> r, invocations |-> made, comparisons |-> compared]

\* func(self, *args, **kwargs): the wrapped method returns what it received
WrappedCall(self, args, kwargs) ==
    [method |-> func, self |-> self, args |-> args, kwargs |-> kwargs]

\* raise VersionError(...) with the required version or its label, unless
\* obtaining that text raised
RaiseVersionError(required) ==
    IF ~ IsOk(required) THEN required
    ELSE RaiseWith("VersionError", VersionErrorMessage(func, required.val.s))

\* The branch taken when the server version does not meet the minimum
Refuse ==
    IF ~ Truthy(VERSION_MAP) THEN RaiseVersionError(version_tuple_as_string(min_version))
    ELSE RaiseVersionError(getitem(VERSION_MAP, min_version))

\* Variant of the check: the wrapped method has run when the check is made
CheckAfterwards(meets, received) ==
    IF ~ IsOk(meets) THEN Trace(meets, <<received>>, 1)
    ELSE IF Truthy(meets.val) THEN Trace(Ok(received), <<received>>, 1)
    ELSE Trace(Refuse, <<received>>, 1)

\* The check of the server version, from the outcome of server_meets_version,
\* and the call of the wrapped method
Check(meets, received) ==
    IF ~ IsOk(meets) THEN Trace(meets, <<>>, 1)
    ELSE IF Truthy(meets.val) THEN Trace(Ok(received), <<received>>, 1)
    ELSE Trace(Refuse, <<>>, 1)

\* Variant: the wrapped method runs first, the checks are made afterwards
wrapper_ChecksAfterwards(self, args, kwargs) ==
    IF ~ hasattr(self)
    THEN Trace(RaiseWith("AttributeError", AttributeErrorMessage),
               <<WrappedCall(self, args, kwargs)>>, 0)
    ELSE CheckAfterwards(server_meets_version(self.attr, min_version),
                         WrappedCall(self, args, kwargs))

\* Variant: the keyword arguments are not passed on to the wrapped method
wrapper_DropsKeywords(self, args, kwargs) ==
    IF ~ hasattr(self)
    THEN Trace(RaiseWith("AttributeError", AttributeErrorMessage), <<>>, 0)
    ELSE Check(server_meets_version(self.attr, min_version),
               WrappedCall(self, args, {}))

\* Variant without the hasattr check: self._server_version is read at once
wrapper_NoAttributeCheck(self, args, kwargs) ==
    IF ~ hasattr(self)
    THEN Trace(RaiseWith("AttributeError", MissingAttributeMessage), <<>>, 0)
    ELSE Check(server_meets_version(self.attr, min_version),
               WrappedCall(self, args, kwargs))

\* wrapper(self, *args, **kwargs), closed over func, min_version and
\* VERSION_MAP
wrapper(self, args, kwargs) ==
    IF ~ hasattr(self)
    THEN Trace(RaiseWith("AttributeError", AttributeErrorMessage), <<>>, 0)
    ELSE Check(server_meets_version(self.attr, min_version),
               WrappedCall(self, args, kwargs))

----------------------------------------------------------------------------
(* ansys.helpers.versioning.utils: the module under the former name, with   *)
(* plain integers as components                                             *)

\* ord(c) of the characters that occur in the inputs
Ord(c) ==
    CASE c = " " -> 32
      [] c = "-" -> 45
      [] c = "." -> 46
      [] c \in DigitChars -> 48 + DigitValue(c)
      [] c = "D" -> 68
      [] c = "E" -> 69
      [] c = "V" -> 86
      [] c = "a" -> 97
      [] c = "d" -> 100
      [] c = "e" -> 101
      [] c = "v" -> 118

\* s < t for two texts: by the first character that differs, a proper
\* prefix being the smaller
RECURSIVE TextLess(_, _)
TextLess(s, t) ==
    IF t = <<>> THEN FALSE
    ELSE IF s = <<>> THEN TRUE
    ELSE IF s[1] # t[1] THEN Ord(s[1]) < Ord(t[1])
    ELSE TextLess(Tail(s), Tail(t))

\* a < b on plain values: int with int, str with str, TypeError otherwise
PlainLess(a, b) ==
    IF IsInt(a) /\ IsInt(b) THEN Ok(a.v < b.v)
    ELSE IF IsStr(a) /\ IsStr(b) THEN Ok(TextLess(a.s, b.s))
    ELSE Raise("TypeError")

\* int(text) of a stripped text, for decimal digits with an optional minus sign
IntOfStripped(s) ==
    IF isdigit(s) THEN Ok(PyInt(ParseInt(s)))
    ELSE IF s # <<>> /\ s[1] = "-" /\ isdigit(Tail(s)) THEN Ok(PyInt(0 - ParseInt(Tail(s))))
    ELSE Raise("ValueError")

\* tuple(map(int, pieces)): the first exception ends it
RECURSIVE legacy_Ints(_)
legacy_Ints(pieces) ==
    IF pieces = <<>> THEN Ok(<<>>)
    ELSE Prepend(IntOfStripped(strip(pieces[1])), legacy_Ints(Tail(pieces)))

\* The check that all numbers are positive, and the padding, on the outcome
\* of converting the pieces; every ValueError becomes a VersionSyntaxError
legacy_CheckPositive(numbers) ==
    IF ~ IsOk(numbers) THEN Raise("VersionSyntaxError")
    ELSE IF \E i \in 1..Len(numbers.val) : numbers.val[i].v < 0 THEN Raise("VersionSyntaxError")
    ELSE Ok(PyTuple(PadTo3(numbers.val, PyInt(0))))

legacy_version_string_as_tuple(version_string) ==
    legacy_CheckPositive(legacy_Ints(split(version_string.s)))

legacy_sanitize_version_tuple(version_tuple) ==
    Ok(PyTuple(PadTo3(version_tuple.t, PyInt(0))))

legacy_Sanitize(version_arg) ==
    IF IsStr(version_arg) THEN legacy_version_string_as_tuple(version_arg)
    ELSE legacy_sanitize_version_tuple(version_arg)

\* What iterating a value yields: the characters of a text, the items of a tuple
Elements(v) == IF IsStr(v) THEN [i \in 1..Len(v.s) |-> PyStr(<<v.s[i]>>)] ELSE v.t

\* One pass of the loop, given the outcome of the comparison and the
\* outcome of the passes that follow
legacy_LoopBody(is_lower, rest) ==
    IF ~ IsOk(is_lower) THEN is_lower
    ELSE IF is_lower.val THEN Ok(False)
    ELSE rest

\* for server_version_number, required_version_number in zip(...)
RECURSIVE legacy_Loop(_, _, _)
legacy_Loop(server_items, required_items, i) ==
    IF i > Min(Len(server_items), Len(required_items)) THEN Ok(True)
    ELSE legacy_LoopBody(PlainLess(server_items[i], required_items[i]),
                         legacy_Loop(server_items, required_items, i + 1))

\* The sanitized server version is bound to the name servers_version, so
\* the loop iterates over the argument server_version as it was given
legacy_Compare(server_version_arg, servers_version, sanitized_required) ==
    IF ~ IsOk(servers_version) THEN servers_version
    ELSE IF ~ IsOk(sanitized_required) THEN sanitized_required
    ELSE legacy_Loop(Elements(server_version_arg), sanitized_required.val.t, 1)

legacy_server_meets_version(server_version_arg, required_version_arg) ==
    legacy_Compare(server_version_arg, legacy_Sanitize(server_version_arg),
                   legacy_Sanitize(required_version_arg))

----------------------------------------------------------------------------
(* The comparator specification: two version inputs, one operation applied *)

\* No guarded method is declared in this specification
NoGuard ==
    /\ func = None /\ min_arg = None /\ VERSION_MAP = None /\ min_version = None
    /\ instance = None /\ call_args = None /\ outcome = None /\ invoked = 0 /\ comparisons = 0

\* Nothing is compared, converted or constructed in a specification
NoComparison == server_version = None /\ required_version = None /\ result = None

NoConversion ==
    /\ input_version = None /\ sanitized = None /\ converted = None
    /\ restored = None /\ resanitized = None

NoConstruction == __iterable = None /\ keywords = None /\ constructed = None

MaxNum == 1

DevTexts == {DEV, DEV \o <<"1">>}

Components == {PyInt(n) : n \in 0..MaxNum} \cup {PyStr(d) : d \in DevTexts}

ComponentTuples == UNION {[1..n -> Components] : n \in 1..3}

\* Every version as a tuple and as the dotted text of the same components
VersionInputs ==
    {PyTuple(t) : t \in ComponentTuples}
    \cup {PyStr(join([i \in 1..Len(t) |-> str(t[i])])) : t \in ComponentTuples}

\* The first component of a version input, as given
FirstComponent(version) ==
    IF IsStr(version) THEN PyStr(split(version.s)[1]) ELSE version.t[1]

\* a op b for every operator, keeping each outcome
AllComparisons(a, b) ==
    IF ~ IsOk(a) THEN a
    ELSE IF ~ IsOk(b) THEN b
    ELSE Ok([x |-> a.val, y |-> b.val,
             is |-> [op \in Operators |->
                        IF a.val.kind = "tuple" THEN TupleCompare(op, a.val, b.val)
                        ELSE Compare(op, a.val, b.val)]])

\* Versions with a negative integer or with a text that is no dev marker,
\* alone or as patch, as tuples and as the dotted texts of the same
MalformedComponents == {PyInt(-1), PyStr(<<"a">>)}
MalformedTuples ==
    {<<c>> : c \in MalformedComponents}
    \cup {<<PyInt(0), PyInt(0), c>> : c \in MalformedComponents}
MalformedInputs ==
    {PyTuple(t) : t \in MalformedTuples}
    \cup {PyStr(join([i \in 1..Len(t) |-> str(t[i])])) : t \in MalformedTuples}

\* The text "DEV", which valid_version_string accepts as it does "dev", as
\* a tuple of one component and as a text
UpperDev == <<"D", "E", "V">>
UpperDevInputs == {PyTuple(<<PyStr(UpperDev)>>), PyStr(UpperDev)}

Init ==
    /\ pc = "start"
    /\ server_version \in VersionInputs \cup MalformedInputs \cup UpperDevInputs
    /\ required_version \in VersionInputs \cup MalformedInputs \cup UpperDevInputs
    /\ result = None
    /\ NoConversion
    /\ NoGuard
    /\ NoConstruction

ServerMeetsVersion ==
    /\ pc = "start"
    /\ pc' = "server_meets_version"
    /\ result' = server_meets_version(server_version, required_version)
    /\ UNCHANGED <<server_version, required_version, conversionVars, guardVars,
                   constructionVars>>

CompareVersionNumbers ==
    /\ pc = "start"
    /\ pc' = "VersionNumber"
    /\ result' = AllComparisons(VersionNumber(FirstComponent(server_version)),
                                VersionNumber(FirstComponent(required_version)))
    /\ UNCHANGED <<server_version, required_version, conversionVars, guardVars,
                   constructionVars>>

CompareSemanticVersions ==
    /\ pc = "start"
    /\ pc' = "SemanticVersion"
    /\ result' = AllComparisons(SemanticVersion(server_version, None, None, None),
                                SemanticVersion(required_version, None, None, None))
    /\ UNCHANGED <<server_version, required_version, conversionVars, guardVars,
                   constructionVars>>

\* The objects given as first argument: one whose _server_version is the
\* server version, one without the attribute, and None
ServerObjects == {MockupServer(server_version), WithoutServerVersion, None}

\* server_meets_version(obj, required_version) for an object obj
ServerObjectMeetsVersion ==
    /\ pc = "start"
    /\ pc' = "server_meets_version(obj)"
    /\ \E obj \in ServerObjects :
        /\ instance' = obj
        /\ result' = server_meets_version(obj, required_version)
    /\ UNCHANGED <<server_version, required_version, conversionVars,
                   func, min_arg, VERSION_MAP, min_version, call_args, outcome,
                   invoked, comparisons, constructionVars>>

\* server_meets_version of ansys.helpers.versioning.utils
LegacyServerMeetsVersion ==
    /\ pc = "start"
    /\ pc' = "legacy_server_meets_version"
    /\ result' = legacy_server_meets_version(server_version, required_version)
    /\ UNCHANGED <<server_version, required_version, conversionVars, guardVars,
                   constructionVars>>

Next ==
    \/ ServerMeetsVersion
    \/ LegacyServerMeetsVersion
    \/ ServerObjectMeetsVersion
    \/ CompareVersionNumbers
    \/ CompareSemanticVersions

Spec == Init /\ [][Next]_vars

----------------------------------------------------------------------------
(* The conversion specification: one value, padded (or not), converted to   *)
(* the other form and converted back                                        *)

MaxConvNum == 10
MaxTextLen == 4

Alphabet == {"0", "1", "-", ".", "d", "e", "v", "D", " "}

ConvComponents ==
    {PyInt(n) : n \in {-10, -1} \cup 0..MaxConvNum}
    \cup {PyStr(d) : d \in DevTexts \cup {DEV \o DEV \o <<"1">>}}

ConvNumbers == {PyInt(n) : n \in 0..MaxConvNum}

\* Versions of four components, as tuples and as dotted texts
LongInputs ==
    {PyTuple(t) : t \in [1..4 -> {PyInt(0), PyInt(1)}]}
    \cup {PyStr(join([i \in 1..4 |-> str(t[i])])) : t \in [1..4 -> {PyInt(0), PyInt(1)}]}

\* A dev marker of more than MaxDevLen characters, and the versions of zeros
\* and this marker, as tuples and as dotted texts
OversizedDev == DEV \o <<"1", "2", "3", "4">>
OversizedTuples == UNION {[1..n -> {PyInt(0), PyStr(OversizedDev)}] : n \in 1..3}
OversizedInputs ==
    {PyTuple(t) : t \in OversizedTuples}
    \cup {PyStr(join([i \in 1..Len(t) |-> str(t[i])])) : t \in OversizedTuples}

\* Tuples of 1 to 3 components; dotted texts of 1 to 3 non-negative integers;
\* every text over the alphabet up to MaxTextLen characters; the versions of
\* four components
ConvInputs ==
    {PyTuple(t) : t \in UNION {[1..n -> ConvComponents] : n \in 1..3}}
    \cup {PyStr(join([i \in 1..Len(t) |-> str(t[i])])) :
             t \in UNION {[1..n -> ConvNumbers] : n \in 1..3}}
    \cup {PyStr(t) : t \in UNION {[1..n -> Alphabet] : n \in 0..MaxTextLen}}
    \cup LongInputs
    \cup OversizedInputs

InitConv ==
    /\ pc = "start"
    /\ input_version \in ConvInputs
    /\ sanitized = None /\ converted = None /\ restored = None /\ resanitized = None
    /\ NoComparison
    /\ NoGuard
    /\ NoConstruction

\* sanitize_version_tuple(input_version) or sanitize_version_string(input_version)
SanitizeVersion ==
    /\ pc = "start"
    /\ pc' = "sanitized"
    /\ sanitized' = IF IsStr(input_version) THEN Ok(sanitize_version_string(input_version))
                    ELSE sanitize_version_tuple(input_version)
    /\ UNCHANGED <<input_version, converted, restored, resanitized, comparatorVars,
                   guardVars, constructionVars>>

\* The padding applied to the padded value
SanitizeAgain ==
    /\ pc = "sanitized" /\ IsOk(sanitized)
    /\ pc' = "resanitized"
    /\ resanitized' = IF IsStr(sanitized.val) THEN Ok(sanitize_version_string(sanitized.val))
                      ELSE sanitize_version_tuple(sanitized.val)
    /\ UNCHANGED <<input_version, sanitized, converted, restored, comparatorVars,
                   guardVars, constructionVars>>

\* The value that is converted: the padded one if padding was applied
ToConvert == IF sanitized = None THEN input_version ELSE sanitized.val

\* version_string_as_tuple or version_tuple_as_string, by the form of the value
ConvertVersion ==
    /\ pc = "start" \/ (pc = "sanitized" /\ IsOk(sanitized))
    /\ pc' = "converted"
    /\ converted' = IF IsStr(ToConvert) THEN version_string_as_tuple(ToConvert)
                    ELSE version_tuple_as_string(ToConvert)
    /\ UNCHANGED <<input_version, sanitized, restored, resanitized, comparatorVars,
                   guardVars, constructionVars>>

\* ... and the opposite conversion applied to its result
ConvertBack ==
    /\ pc = "converted" /\ IsOk(converted)
    /\ pc' = "restored"
    /\ restored' = IF IsStr(converted.val) THEN version_string_as_tuple(converted.val)
                   ELSE version_tuple_as_string(converted.val)
    /\ UNCHANGED <<input_version, sanitized, converted, resanitized, comparatorVars,
                   guardVars, constructionVars>>

NextConv == SanitizeVersion \/ SanitizeAgain \/ ConvertVersion \/ ConvertBack

SpecConv == InitConv /\ [][NextConv]_vars

----------------------------------------------------------------------------
(* The guard specification: one method declared with requires_version,     *)
(* then called any number of times on one object                           *)

MaxGuardNum == 1

\* A dev marker beyond the length that version_tuple_as_string accepts
LongDev == DEV \o DEV \o <<"1">>

GuardNumbers == {PyInt(n) : n \in 0..MaxGuardNum}

\* 1 to 3 integers, or 0.0.<dev marker>
GuardTuples(devs) ==
    UNION {[1..n -> GuardNumbers] : n \in 1..3}
    \cup {<<PyInt(0), PyInt(0), PyStr(d)>> : d \in devs}

\* Minimum versions as tuples and as dotted texts, and one malformed text
GuardMinimums ==
    {PyTuple(t) : t \in GuardTuples({DEV, LongDev})}
    \cup {PyStr(join([i \in 1..Len(t) |-> str(t[i])])) : t \in GuardTuples({DEV, LongDev})}
    \cup {PyStr(<<"0", ".", "-", "1">>)}

\* Server versions as tuples, and the triples among them as dotted texts
GuardServerVersions ==
    {PyTuple(t) : t \in GuardTuples(DevTexts)}
    \cup {PyStr(join([i \in 1..3 |-> str(t[i])])) :
             t \in {u \in GuardTuples(DevTexts) : Len(u) = 3}}

\* The labels "20XYRZ", "20XYR1", ... of the unified install versions
Label(last) == PyStr(<<"2", "0", "X", "Y", "R", last>>)

\* No map, the empty map, and maps with and without an entry for (0, 1, 0)
GuardMaps ==
    {None,
     PyDict({}),
     PyDict({<<PyTuple(<<PyInt(0), PyInt(1), PyInt(0)>>), Label("Z")>>}),
     PyDict({<<PyTuple(<<PyInt(0), PyInt(1)>>), Label("1")>>}),
     PyDict({<<PyTuple(<<PyInt(0), PyInt(1), PyInt(0)>>), Label("Z")>>,
             <<PyTuple(<<PyInt(0), PyInt(0), PyStr(DEV)>>), Label("2")>>})}

\* The positional and keyword arguments of a call
CallArguments ==
    {[args |-> <<>>, kwargs |-> {}],
     [args |-> <<PyInt(1)>>, kwargs |-> {<<"key", PyInt(2)>>}]}

InitGuard ==
    /\ pc = "start"
    /\ func \in {"foo", "bar"}
    /\ min_arg \in GuardMinimums
    /\ VERSION_MAP \in GuardMaps
    /\ instance \in {WithoutServerVersion} \cup {MockupServer(v) : v \in GuardServerVersions}
    /\ min_version = None /\ call_args = None /\ outcome = None
    /\ invoked = 0 /\ comparisons = 0
    /\ NoComparison
    /\ NoConversion
    /\ NoConstruction

\* The state after the decorator ran, from the outcome of sanitizing the
\* minimum version
Declared(sanitized_minimum) ==
    /\ pc' = IF IsOk(sanitized_minimum) THEN "declared" ELSE "declaration_failed"
    /\ min_version' = IF IsOk(sanitized_minimum) THEN sanitized_minimum.val
                      ELSE min_version
    /\ outcome' = IF IsOk(sanitized_minimum) THEN outcome ELSE sanitized_minimum

\* @requires_version(min_arg, VERSION_MAP) applied to func: the decorator
\* sanitizes the minimum version, or raises
Declare ==
    /\ pc = "start"
    /\ Declared(decorator(min_arg))
    /\ UNCHANGED <<guardConfig, call_args, invoked, comparisons,
                   comparatorVars, conversionVars, constructionVars>>

\* The state after a call, from what the wrapper did
Called(trace) ==
    /\ outcome' = trace.outcome
    /\ invoked' = Len(trace.invocations)
    /\ comparisons' = trace.comparisons

\* A call of the decorated method on instance: one call of the wrapper
Call ==
    /\ pc \in {"declared", "called"}
    /\ pc' = "called"
    /\ \E given \in CallArguments :
        /\ call_args' = given
        /\ Called(wrapper(instance, given.args, given.kwargs))
    /\ UNCHANGED <<guardConfig, min_version, comparatorVars, conversionVars,
                   constructionVars>>

NextGuard == Declare \/ Call

SpecGuard == InitGuard /\ [][NextGuard]_vars

----------------------------------------------------------------------------
(* The construction specification: one SemanticVersion built from a         *)
(* positional argument (a tuple or a dotted text) or from the keyword       *)
(* arguments major, minor and patch                                         *)

MaxSemNum == 1

\* A patch text that is no dev marker, without and with a dot
DEVA == DEV \o <<"a">>
DEV_A == DEV \o <<".", "a">>

\* Integers, the same as digit texts, dev markers and malformed patches
SemComponents ==
    {PyInt(n) : n \in 0..MaxSemNum}
    \cup {PyStr(str(PyInt(n))) : n \in 0..MaxSemNum}
    \cup {PyStr(d) : d \in DevTexts \cup {DEVA, DEV_A}}

SemTuples == UNION {[1..n -> SemComponents] : n \in 1..3}

\* Tuples of 1 to 3 components and the dotted texts of the same
SemIterables ==
    {PyTuple(t) : t \in SemTuples}
    \cup {PyStr(join([i \in 1..Len(t) |-> str(t[i])])) : t \in SemTuples}

\* The keyword arguments; an argument that is not given is None
NoKeywords == [major |-> None, minor |-> None, patch |-> None]
SemKeywords ==
    [major : SemComponents \cup {None},
     minor : SemComponents \cup {None},
     patch : SemComponents \cup {None}]

InitSem ==
    /\ pc = "start"
    /\ \/ __iterable \in SemIterables /\ keywords = NoKeywords
       \/ __iterable = None /\ keywords \in SemKeywords
    /\ constructed = None
    /\ NoComparison
    /\ NoConversion
    /\ NoGuard

\* SemanticVersion(__iterable) or SemanticVersion(major=..., minor=..., patch=...)
Construct ==
    /\ pc = "start"
    /\ pc' = "constructed"
    /\ constructed' = SemanticVersion(__iterable, keywords.major, keywords.minor,
                                      keywords.patch)
    /\ UNCHANGED <<__iterable, keywords, comparatorVars, conversionVars, guardVars>>

NextSem == Construct

SpecSem == InitSem /\ [][NextSem]_vars

----------------------------------------------------------------------------
(* Reading the inputs of a state, for the properties below *)

DottedText(parts) == PyStr(join(parts))

\* The components of a version input as values: each piece of a text is the
\* integer it spells or else the text itself
PieceValue(piece) == IF isdigit(piece) THEN PyInt(ParseInt(piece)) ELSE PyStr(piece)
Given(v) ==
    IF IsStr(v) THEN [i \in 1..Len(split(v.s)) |-> PieceValue(split(v.s)[i])]
    ELSE v.t

\* ... padded with zeros to three
Parts(v) == PadTo3(Given(v), PyInt(0))

IsDevText(c) == IsStr(c) /\ HasDev(c.s)

\* v is a triple of non-negative integers, as a tuple or as dotted text
IsIntTriple(v) ==
    Len(Given(v)) = 3 /\ \A i \in 1..3 : IsInt(Given(v)[i]) /\ Given(v)[i].v >= 0

\* v is (major, minor, dev marker) with integers major and minor
IsDevPatchTriple(v) ==
    /\ Len(Given(v)) = 3
    /\ \A i \in 1..2 : IsInt(Given(v)[i]) /\ Given(v)[i].v >= 0
    /\ IsDevText(Given(v)[3])

Numbers(v) == [i \in 1..Len(Given(v)) |-> Given(v)[i].v]

\* Lexicographic order on the first k entries of two integer sequences
RECURSIVE LexGE(_, _, _, _)
LexGE(a, b, i, k) ==
    IF i > k THEN TRUE
    ELSE IF a[i] # b[i] THEN a[i] > b[i]
    ELSE LexGE(a, b, i + 1, k)

\* Position i is the first at which p and q differ, and holds two dev markers
FirstDifferenceIsDevPair(p, q) ==
    \E i \in 1..3 :
        /\ \A j \in 1..(i - 1) : p[j].v = q[j].v /\ p[j].s = q[j].s
        /\ IsDevText(p[i]) /\ IsDevText(q[i]) /\ p[i].s # q[i].s

OrderingOperators == {"lt", "le", "gt", "ge"}

----------------------------------------------------------------------------
(* Properties of the comparator specification *)

\* C1: for triples of non-negative integers, given as tuples or as dotted
\* text on either side, server_meets_version returns True exactly when the
\* server triple is lexicographically >= the required triple (so also when
\* the two are equal), and False otherwise.
C1_MeetsIffLexGE ==
    pc = "server_meets_version" /\ IsIntTriple(server_version) /\ IsIntTriple(required_version)
        => result = Ok(IF LexGE(Numbers(server_version), Numbers(required_version), 1, 3)
                       THEN True ELSE False)

\* C1 witness: a text server version below a tuple required version in the
\* major position although above it in minor and patch
C1_Witness ==
    /\ pc = "server_meets_version"
    /\ server_version = DottedText(<<<<"0">>, <<"1">>, <<"1">>>>)
    /\ required_version = PyTuple(<<PyInt(1), PyInt(0), PyInt(0)>>)
    /\ result = Ok(False)

\* C2: a dev-tagged VersionNumber d against a numeric VersionNumber n (from
\* an int or from digit text), in both operand orders: d > n, d >= n, n < d,
\* n <= d, d != n, n != d are True; d < n, d <= n, n > d, n >= d, d == n,
\* n == d are False; none of them raises.
C2_DevAboveNumeric ==
    pc = "VersionNumber" /\ IsOk(result) =>
        LET x == result.val.x
            y == result.val.y
            is == result.val.is
        IN  /\ x.kind = "mystr" /\ HasDev(x.s) /\ y.kind = "myint" =>
                /\ is["gt"] = Ok(TRUE) /\ is["ge"] = Ok(TRUE) /\ is["ne"] = Ok(TRUE)
                /\ is["lt"] = Ok(FALSE) /\ is["le"] = Ok(FALSE) /\ is["eq"] = Ok(FALSE)
            /\ x.kind = "myint" /\ y.kind = "mystr" /\ HasDev(y.s) =>
                /\ is["lt"] = Ok(TRUE) /\ is["le"] = Ok(TRUE) /\ is["ne"] = Ok(TRUE)
                /\ is["gt"] = Ok(FALSE) /\ is["ge"] = Ok(FALSE) /\ is["eq"] = Ok(FALSE)

\* C2 witness: "dev1" given in a tuple compared with the number 1 given as text
C2_Witness ==
    /\ pc = "VersionNumber"
    /\ FirstComponent(server_version) = PyStr(DEV \o <<"1">>)
    /\ IsStr(required_version)
    /\ IsOk(result)
    /\ result.val.y = myint(1)
    /\ result.val.is["ge"] = Ok(TRUE)

C4_DevPatch ==
    pc = "server_meets_version" =>
        /\ (IsDevPatchTriple(server_version) /\ IsIntTriple(required_version)
            => result = Ok(IF LexGE(Numbers(server_version), Numbers(required_version), 1, 2)
                           THEN True ELSE False))
        /\ (IsIntTriple(server_version) /\ IsDevPatchTriple(required_version)
            /\ LexGE(Numbers(required_version), Numbers(server_version), 1, 2)
            => result = Ok(False))

\* C4 witness: (0, 0, 1) against "0.0.dev" is False
C4_Witness ==
    /\ pc = "server_meets_version"
    /\ server_version = PyTuple(<<PyInt(0), PyInt(0), PyInt(1)>>)
    /\ required_version = DottedText(<<<<"0">>, <<"0">>, DEV>>)
    /\ result = Ok(False)

\* C7: server_meets_version raises VersionSyntaxError whenever the server
\* version text carries a dev marker in the major or in the minor position.
C7_DevMajorMinorRejected ==
    pc = "server_meets_version" /\ IsStr(server_version)
    /\ (\E i \in 1..2 : i <= Len(split(server_version.s))
                        /\ HasDev(split(server_version.s)[i]))
        => Raises(result, "VersionSyntaxError")

----------------------------------------------------------------------------
(* Properties of the conversion specification *)

\* A decimal numeral as str() writes a non-negative integer
IsNumeral(piece) == isdigit(piece) /\ (Len(piece) = 1 \/ piece[1] # "0")

\* v is a tuple of 1 to 3 non-negative integers
IsNumberTuple(v) ==
    /\ v.kind = "tuple"
    /\ Len(v.t) \in 1..3
    /\ \A i \in 1..Len(v.t) : IsInt(v.t[i]) /\ v.t[i].v >= 0

\* v is the dotted text of 1 to 3 non-negative integers
IsNumberText(v) ==
    /\ IsStr(v)
    /\ Len(split(v.s)) \in 1..3
    /\ \A i \in 1..Len(split(v.s)) : IsNumeral(split(v.s)[i])

\* C5: on versions of 1 to 3 non-negative integers the conversions are
\* mutual inverses after padding: parsing the formatted padded tuple gives
\* the padded tuple back, and formatting the parsed padded text gives the
\* padded text back.
C5_RoundTrip ==
    pc = "restored" /\ sanitized # None
    /\ (IsNumberTuple(input_version) \/ IsNumberText(input_version))
        => restored = sanitized

\* C5 witness: (10, 0) padded, formatted and parsed back is (10, 0, 0)
C5_Witness ==
    /\ pc = "restored"
    /\ input_version = PyTuple(<<PyInt(10), PyInt(0)>>)
    /\ converted = Ok(PyStr(<<"1", "0", ".", "0", ".", "0">>))
    /\ restored = Ok(PyTuple(<<myint(10), myint(0), myint(0)>>))

----------------------------------------------------------------------------
(* Properties of the guard specification *)

\* v is a version of 1 to 3 components, each a non-negative integer or a
\* dev marker of at most MaxDevLen characters
IsVersion(v) ==
    /\ Len(Given(v)) \in 1..3
    /\ \A i \in 1..Len(Given(v)) :
        \/ IsInt(Given(v)[i]) /\ Given(v)[i].v >= 0
        \/ IsDevText(Given(v)[i]) /\ Len(Given(v)[i].s) <= MaxDevLen

\* c is below d: a smaller integer, or an integer against a dev marker
Below(c, d) == IsInt(c) /\ (IF IsInt(d) THEN c.v < d.v ELSE IsDevText(d))

\* The padded version p is lower than q: where they first differ, the
\* component of p is below that of q
Lower(p, q) ==
    \E i \in 1..3 :
        /\ \A j \in 1..(i - 1) : p[j].v = q[j].v /\ p[j].s = q[j].s
        /\ Below(p[i], q[i])

\* The object has a _server_version, and it is lower than the minimum
ServerIsLower == hasattr(instance) /\ Lower(Parts(instance.attr), Parts(min_arg))

\* The minimum version written as MAJOR.MINOR.PATCH
FormattedMinimum == join([i \in 1..3 |-> str(Parts(min_arg)[i])])

\* The VersionError message with the required version or label in it
RequiresMessage(required) ==
    <<"Class method ", Backquotes, func, Backquotes,
      " requires server version >= ", required, ".">>

\* The map has this item under exactly the padded minimum version
IsItemOfMinimum(item) ==
    /\ item \in VERSION_MAP.items
    /\ Len(item[1].t) = 3
    /\ \A i \in 1..3 : /\ item[1].t[i].v = Parts(min_arg)[i].v
                       /\ item[1].t[i].s = Parts(min_arg)[i].s

\* C8: a call of a method guarded without a version map, on an object whose
\* _server_version is lower than the minimum, raises VersionError with the
\* message "Class method <name between backquotes> requires server version
\* >= <minimum as MAJOR.MINOR.PATCH>." and does not run the wrapped method.
C8_VersionErrorWithoutMap ==
    pc = "called" /\ VERSION_MAP = None /\ IsVersion(min_arg) /\ ServerIsLower =>
        /\ outcome = RaiseWith("VersionError", RequiresMessage(FormattedMinimum))
        /\ invoked = 0

\* C8 witness: bar requires (0, 1, 0) and is called on a server of (0, 0, 1)
C8_Witness ==
    /\ pc = "called"
    /\ func = "bar"
    /\ min_arg = PyTuple(<<PyInt(0), PyInt(1), PyInt(0)>>)
    /\ VERSION_MAP = None
    /\ instance = MockupServer(PyTuple(<<PyInt(0), PyInt(0), PyInt(1)>>))
    /\ outcome = RaiseWith("VersionError",
                           RequiresMessage(<<"0", ".", "1", ".", "0">>))
    /\ invoked = 0

\* C9: with a version map supplied and a server version lower than the
\* minimum, the VersionError names the label that the map holds for exactly
\* the normalized minimum version; when the map holds none for it, the empty
\* map included, the call raises the lookup error (KeyError) and never the
\* VersionError with the formatted version.
C9_LabelOrLookupError ==
    pc = "called" /\ VERSION_MAP # None /\ IsVersion(min_arg) /\ ServerIsLower =>
        IF \E item \in VERSION_MAP.items : IsItemOfMinimum(item)
        THEN /\ \E item \in VERSION_MAP.items :
                    /\ IsItemOfMinimum(item)
                    /\ outcome = RaiseWith("VersionError", RequiresMessage(item[2].s))
             /\ invoked = 0
        ELSE Raises(outcome, "KeyError") /\ invoked = 0

\* C10: a call on an object without a _server_version attribute raises
\* AttributeError with the message "Decorated class method must have
\* <_server_version between backquotes> attribute.", compares no versions
\* and does not run the wrapped method.
C10_MissingAttribute ==
    pc = "called" /\ ~ hasattr(instance) =>
        /\ outcome = RaiseWith("AttributeError",
                               <<"Decorated class method must have ", Backquotes,
                                 "_server_version", Backquotes, " attribute.">>)
        /\ comparisons = 0
        /\ invoked = 0

\* C10 witness: foo, guarded with a version map, called on such an object
C10_Witness ==
    /\ pc = "called"
    /\ func = "foo"
    /\ VERSION_MAP # None
    /\ instance = WithoutServerVersion
    /\ Raises(outcome, "AttributeError")
    /\ comparisons = 0
    /\ invoked = 0

\* The padded version p meets q: the two are equal, or where they first
\* differ the component of q is below that of p
Meets(p, q) ==
    \/ \A j \in 1..3 : p[j].v = q[j].v /\ p[j].s = q[j].s
    \/ Lower(q, p)

\* The object has a _server_version, and it meets the minimum
ServerMeets == hasattr(instance) /\ Meets(Parts(instance.attr), Parts(min_arg))

\* C11: when the _server_version of the object meets the minimum version,
\* the call runs the wrapped method once, with the object and the positional
\* and keyword arguments of the call, and returns what the method returned;
\* nothing is raised.
C11_CallPassesThrough ==
    pc = "called" /\ ServerMeets =>
        /\ outcome = Ok([method |-> func, self |-> instance,
                         args |-> call_args.args, kwargs |-> call_args.kwargs])
        /\ invoked = 1

\* C11 witness: foo requires "0.1.1" with a version map and is called with a
\* positional and a keyword argument on a server of "1.0.0"
C11_Witness ==
    /\ pc = "called"
    /\ func = "foo"
    /\ min_arg = DottedText(<<<<"0">>, <<"1">>, <<"1">>>>)
    /\ VERSION_MAP # None
    /\ instance = MockupServer(DottedText(<<<<"1">>, <<"0">>, <<"0">>>>))
    /\ call_args.args = <<PyInt(1)>>
    /\ IsOk(outcome) /\ outcome.val.kwargs = {<<"key", PyInt(2)>>}
    /\ invoked = 1

----------------------------------------------------------------------------
(* Further properties of the comparator specification *)

\* C12: with a first argument that is neither a string nor a tuple,
\* server_meets_version gives what it gives for the _server_version of that
\* object, a string or a tuple, when the object has the attribute, and raises
\* ValueError when it has not.
C12_ObjectArgument ==
    pc = "server_meets_version(obj)" =>
        IF instance.kind = "obj" /\ instance.has
        THEN result = server_meets_version(instance.attr, required_version)
        ELSE Raises(result, "ValueError")

\* C12 witness: an object whose _server_version is the tuple (1, 0) meets
\* "0.1.0"
C12_Witness ==
    /\ pc = "server_meets_version(obj)"
    /\ instance = MockupServer(PyTuple(<<PyInt(1), PyInt(0)>>))
    /\ required_version = DottedText(<<<<"0">>, <<"1">>, <<"0">>>>)
    /\ result = Ok(True)

----------------------------------------------------------------------------
(* Properties of the construction specification *)

\* The dev marker of the specification: "dev", optionally followed by
\* digits, of at most MaxDevLen characters
IsDevMarker(text) ==
    /\ Len(text) \in 3..MaxDevLen
    /\ SubSeq(text, 1, 3) = DEV
    /\ \A i \in 4..Len(text) : text[i] \in DigitChars

\* The components given to the constructor, None for a keyword argument
\* that is not given
SemArguments ==
    IF __iterable # None THEN Given(__iterable)
    ELSE <<keywords.major, keywords.minor, keywords.patch>>

HasThreeComponents ==
    Len(SemArguments) = 3 /\ \A i \in 1..3 : SemArguments[i] # None

DevMajorOrMinor ==
    \E i \in 1..2 : IsStr(SemArguments[i]) /\ IsDevMarker(SemArguments[i].s)

MalformedPatch ==
    /\ IsStr(SemArguments[3])
    /\ ~ isdigit(SemArguments[3].s)
    /\ ~ IsDevMarker(SemArguments[3].s)

\* C13: constructing a SemanticVersion raises VersionSyntaxError, and gives
\* no value, whenever the input does not have exactly three components,
\* whenever major or minor is a dev marker, and whenever patch is a text
\* that is neither digits nor a dev marker.
C13_ConstructionRejected ==
    (/\ pc = "constructed"
     /\ \/ ~ HasThreeComponents
        \/ DevMajorOrMinor
        \/ MalformedPatch)
    => Raises(constructed, "VersionSyntaxError")

\* ... the same inputs do fail in the code, with ValueError
C13_RejectedWithValueError ==
    (/\ pc = "constructed"
     /\ \/ ~ HasThreeComponents
        \/ DevMajorOrMinor
        \/ MalformedPatch)
    => Raises(constructed, "ValueError")

\* v has a negative integer, or a text that is neither digits nor a dev
\* marker, among its components
IsMalformed(v) ==
    \E i \in 1..Len(Given(v)) :
        \/ IsInt(Given(v)[i]) /\ Given(v)[i].v < 0
        \/ /\ IsStr(Given(v)[i])
           /\ ~ isdigit(Given(v)[i].s)
           /\ ~ IsDevMarker(Given(v)[i].s)

\* C18: server_meets_version raises VersionSyntaxError, and returns no
\* boolean, when either argument is a tuple with a negative integer or with a
\* text that is no dev marker, as it does for the dotted text of the same.
C18_MalformedTuple ==
    (/\ pc = "server_meets_version"
     /\ \/ server_version.kind = "tuple" /\ IsMalformed(server_version)
        \/ required_version.kind = "tuple" /\ IsMalformed(required_version))
    => Raises(result, "VersionSyntaxError")

\* ... which holds when the malformed arguments are dotted texts
C18_MalformedText ==
    (/\ pc = "server_meets_version"
     /\ IsMalformed(server_version) \/ IsMalformed(required_version)
     /\ IsMalformed(server_version) => IsStr(server_version)
     /\ IsMalformed(required_version) => IsStr(required_version))
    => Raises(result, "VersionSyntaxError")

\* v is a version of 1 to 3 non-negative integers, as a tuple or as dotted text
IsNumberVersion(v) == IsNumberTuple(v) \/ IsNumberText(v)

\* The numbers of such a version, padded with zeros to three
PaddedNumbers(v) == [i \in 1..3 |-> Parts(v)[i].v]

\* C19: server_meets_version of ansys.helpers.versioning.utils takes a text
\* or a tuple for each argument and returns True exactly when the server
\* version is greater than or equal to the required one by major, then
\* minor, then patch.
C19_LegacyMeetsIffLexGE ==
    (/\ pc = "legacy_server_meets_version"
     /\ IsNumberVersion(server_version) /\ IsNumberVersion(required_version))
    => result = Ok(IF LexGE(PaddedNumbers(server_version),
                            PaddedNumbers(required_version), 1, 3)
                   THEN True ELSE False)

\* ... what the code does: a text as server version raises TypeError, and a
\* tuple meets the required version when none of its components is lower
C19_LegacyAsCoded ==
    (/\ pc = "legacy_server_meets_version"
     /\ IsNumberVersion(server_version) /\ IsNumberVersion(required_version))
    => IF IsStr(server_version) THEN Raises(result, "TypeError")
       ELSE result = Ok(IF \A i \in 1..Len(server_version.t) :
                              server_version.t[i].v >= Parts(required_version)[i].v
                        THEN True ELSE False)

\* The tuple of the three keyword arguments
KeywordTuple == PyTuple(<<keywords.major, keywords.minor, keywords.patch>>)

AllKeywordsGiven ==
    __iterable = None /\ keywords.major # None /\ keywords.minor # None /\ keywords.patch # None

\* C20: SemanticVersion(major=a, minor=b, patch=c) constructs the value
\* that SemanticVersion((a, b, c)) constructs, for every triple that the
\* tuple form accepts, a component 0 included.
C20_KeywordsAsTuple ==
    (/\ pc = "constructed"
     /\ AllKeywordsGiven
     /\ IsOk(SemanticVersion(KeywordTuple, None, None, None)))
    => constructed = SemanticVersion(KeywordTuple, None, None, None)

\* ... which holds for the triples without the integer 0
C20_NonZeroKeywords ==
    (/\ pc = "constructed"
     /\ AllKeywordsGiven
     /\ \A i \in 1..3 : KeywordTuple.t[i] # PyInt(0))
    => constructed = SemanticVersion(KeywordTuple, None, None, None)

\* SemanticVersion(major=1, minor="1", patch="dev") is (1, 1, "dev")
C20_NonZeroReached ==
    /\ pc = "constructed"
    /\ __iterable = None
    /\ keywords = [major |-> PyInt(1), minor |-> PyStr(<<"1">>), patch |-> PyStr(DEV)]
    /\ constructed = Ok(PyTuple(<<myint(1), myint(1), mystr(DEV)>>))

----------------------------------------------------------------------------
(* Properties of SemanticVersion in the comparator specification *)

\* v is a semantic version: three components, integers or a dev patch
IsSemTriple(v) == IsIntTriple(v) \/ IsDevPatchTriple(v)

\* The first position at which the triples p and q differ, 0 if none
RECURSIVE FirstDiffering(_, _, _)
FirstDiffering(p, q, i) ==
    IF i > 3 THEN 0
    ELSE IF p[i].v # q[i].v \/ p[i].s # q[i].s THEN i
    ELSE FirstDiffering(p, q, i + 1)

\* The order of two components that differ: "none" for two dev markers
ComponentOrder(c, d) ==
    IF IsInt(c) /\ IsInt(d) THEN (IF c.v < d.v THEN "lt" ELSE "gt")
    ELSE IF IsInt(c) THEN "lt"
    ELSE IF IsInt(d) THEN "gt"
    ELSE "none"

\* The lexicographic order of two triples, given the first differing position
LexOrderAt(p, q, i) == IF i = 0 THEN "eq" ELSE ComponentOrder(p[i], q[i])
LexOrder(p, q) == LexOrderAt(p, q, FirstDiffering(p, q, 1))

\* What operator op answers on two values in the given order
Answer(op, order) ==
    CASE op = "eq" -> order = "eq"
      [] op = "ne" -> order # "eq"
      [] op = "lt" -> order = "lt"
      [] op = "le" -> order \in {"lt", "eq"}
      [] op = "gt" -> order = "gt"
      [] op = "ge" -> order \in {"gt", "eq"}

\* C14: SemanticVersion values built from tuples or from dotted texts compare
\* lexicographically by (major, minor, patch) under every operator, a dev
\* patch being above every numeric patch, and major and minor deciding
\* before the patch (two different dev patches are ordered by no operator,
\* and are unequal).
C14_SemanticOrder ==
    (pc = "SemanticVersion" /\ IsSemTriple(server_version) /\ IsSemTriple(required_version))
    => /\ IsOk(result)
       /\ \A op \in Operators :
            \/ /\ op \in OrderingOperators
               /\ LexOrder(Given(server_version), Given(required_version)) = "none"
            \/ result.val.is[op] =
                   Ok(Answer(op, LexOrder(Given(server_version), Given(required_version))))

\* SemanticVersion((1, 0, "dev1")) < SemanticVersion("1.1.1")
C14_Witness ==
    /\ pc = "SemanticVersion"
    /\ server_version = PyTuple(<<PyInt(1), PyInt(0), PyStr(DEV \o <<"1">>)>>)
    /\ required_version = DottedText(<<<<"1">>, <<"1">>, <<"1">>>>)
    /\ IsOk(result)
    /\ result.val.is["lt"] = Ok(TRUE)
    /\ result.val.is["ge"] = Ok(FALSE)

----------------------------------------------------------------------------
(* Further properties of the conversion specification *)

\* The components of a value as they stand: the pieces of a text, the items
\* of a tuple
Items(v) == IF IsStr(v) THEN Pieces(v.s) ELSE v.t

SameValue(c, d) == c.v = d.v /\ c.s = d.s

IsZero(c) == IF IsInt(c) THEN c.v = 0 ELSE c.s = <<"0">>

\* v is a valid version of any length: non-negative integers and dev markers
IsValidInput(v) ==
    /\ Len(Given(v)) >= 1
    /\ \A i \in 1..Len(Given(v)) :
        \/ IsInt(Given(v)[i]) /\ Given(v)[i].v >= 0
        \/ IsStr(Given(v)[i]) /\ IsDevMarker(Given(v)[i].s)

Longest(a, b) == IF a > b THEN a ELSE b

\* C15: padding a valid version keeps its components in order, appends
\* zeros on the right up to three components, removes none, and padding
\* the padded value again changes nothing.
C15_Padding ==
    (pc \in {"sanitized", "resanitized"} /\ IsValidInput(input_version))
    => /\ IsOk(sanitized)
       /\ IsStr(sanitized.val) = IsStr(input_version)
       /\ Len(Items(sanitized.val)) = Longest(3, Len(Items(input_version)))
       /\ \A i \in 1..Len(Items(input_version)) :
            SameValue(Items(sanitized.val)[i], Items(input_version)[i])
       /\ \A i \in (Len(Items(input_version)) + 1)..3 : IsZero(Items(sanitized.val)[i])
       /\ pc = "resanitized" => resanitized = sanitized

\* (1,) is padded to (1, 0, 0), and again to the same
C15_Witness ==
    /\ pc = "resanitized"
    /\ input_version = PyTuple(<<PyInt(1)>>)
    /\ sanitized = Ok(PyTuple(<<myint(1), myint(0), myint(0)>>))
    /\ resanitized = sanitized

\* ... and a version of four components keeps all four
C15_WitnessFour ==
    /\ pc = "resanitized"
    /\ input_version = DottedText(<<<<"1">>, <<"0">>, <<"0">>, <<"1">>>>)
    /\ sanitized = Ok(input_version)

\* The text with every dot-separated piece stripped of surrounding whitespace
Trimmed(v) == PyStr(join([i \in 1..Len(split(v.s)) |-> strip(split(v.s)[i])]))

HasWhitespace(v) == \E i \in 1..Len(v.s) : v.s[i] \in Whitespace

\* C16: a component is parsed from its text after trimming surrounding
\* whitespace, so a text whose components carry surrounding whitespace
\* parses to the same result as the text without it, for digits and for
\* dev markers alike.
C16_TrimmedComponent ==
    (pc = "converted" /\ sanitized = None /\ IsStr(input_version))
    => converted = version_string_as_tuple(Trimmed(input_version))

\* ... which the code does for the texts that hold no dev marker
C16_TrimmedDigits ==
    (pc = "converted" /\ sanitized = None /\ IsStr(input_version)
     /\ ~ HasDev(lower(input_version.s)))
    => converted = version_string_as_tuple(Trimmed(input_version))

\* " 1" parses as "1" does
C16_DigitsReached ==
    /\ pc = "converted" /\ sanitized = None
    /\ input_version = PyStr(<<" ", "1">>)
    /\ converted = Ok(PyTuple(<<myint(1), myint(0), myint(0)>>))

\* The dev components of an outcome that is a tuple
DevComponents(r) ==
    IF r # None /\ IsOk(r) /\ r.val.kind = "tuple"
    THEN {r.val.t[i] : i \in {j \in 1..Len(r.val.t) : IsStr(r.val.t[j])}}
    ELSE {}

HasOversizedDev(v) == \E i \in 1..Len(Items(v)) : HasDev(Items(v)[i].s) /\ Len(Items(v)[i].s) > MaxDevLen

\* C17: no dev component longer than MaxDevLen characters is produced:
\* version_string_as_tuple and sanitize_version_tuple raise
\* VersionSyntaxError for a dev marker longer than that.
C17_NoOversizedDev ==
    /\ \A r \in {sanitized, converted, restored, resanitized} :
          \A c \in DevComponents(r) : Len(c.s) <= MaxDevLen
    /\ (pc = "sanitized" /\ ~ IsStr(input_version) /\ HasOversizedDev(input_version))
          => Raises(sanitized, "VersionSyntaxError")
    /\ (pc = "converted" /\ sanitized = None /\ IsStr(input_version)
          /\ HasOversizedDev(input_version))
          => Raises(converted, "VersionSyntaxError")

\* ... version_tuple_as_string does enforce the limit
C17_FormattingEnforcesLimit ==
    (pc = "converted" /\ sanitized = None /\ ~ IsStr(input_version)
     /\ HasOversizedDev(input_version))
    => Raises(converted, "VersionSyntaxError")

----------------------------------------------------------------------------
(* The deciding position of server_meets_version *)

\* v is a version of 1 to 3 components whose dev marker, if any, is the patch
IsPatchDevVersion(v) ==
    /\ IsVersion(v)
    /\ \A i \in 1..Len(Given(v)) : IsDevText(Given(v)[i]) => i = 3

\* Some position after the first differing one holds two different dev markers
DevPairAfter(p, q, i) ==
    \E j \in (i + 1)..3 : IsDevText(p[j]) /\ IsDevText(q[j]) /\ p[j].s # q[j].s

\* The outcome that the first differing position of two padded versions
\* gives: none for two dev markers at that position
DecidedBy(order) ==
    CASE order \in {"eq", "gt"} -> {Ok(True)}
      [] order = "lt" -> {Ok(False)}
      [] order = "none" -> {}

\* C21: the result of server_meets_version is decided by the first position
\* at which the two normalized versions are unequal, True for a greater and
\* False for a smaller server component; the components after it neither
\* change the result nor raise, two different dev markers included.
C21_FirstDifferenceDecides ==
    (/\ pc = "server_meets_version"
     /\ IsPatchDevVersion(server_version) /\ IsPatchDevVersion(required_version)
     /\ LexOrder(Parts(server_version), Parts(required_version)) # "none")
    => result \in DecidedBy(LexOrder(Parts(server_version), Parts(required_version)))

\* ... and the same with a dev marker in any position
C21_AnyPosition ==
    (/\ pc = "server_meets_version"
     /\ IsVersion(server_version) /\ IsVersion(required_version)
     /\ LexOrder(Parts(server_version), Parts(required_version)) # "none")
    => result \in DecidedBy(LexOrder(Parts(server_version), Parts(required_version)))

\* (1, 0, "dev") against "0.0.dev1": decided by the major number, the two
\* dev markers are not compared
C21_Witness ==
    /\ pc = "server_meets_version"
    /\ server_version = PyTuple(<<PyInt(1), PyInt(0), PyStr(DEV)>>)
    /\ required_version = DottedText(<<<<"0">>, <<"0">>, DEV \o <<"1">>>>)
    /\ DevPairAfter(Parts(server_version), Parts(required_version), 1)
    /\ result = Ok(True)

----------------------------------------------------------------------------
(* The minimum version of requires_version over the calls *)

\* min_version is the minimum version given, padded to three components
IsNormalizedMinimum ==
    /\ min_version.kind = "tuple"
    /\ Len(min_version.t) = 3
    /\ \A i \in 1..3 : /\ IsVersionMeta(min_version.t[i])
                       /\ SameValue(min_version.t[i], Parts(min_arg)[i])

\* What holds in every state: a malformed text fails the declaration with
\* VersionSyntaxError and nothing is called; otherwise the normalized
\* minimum is stored from the declaration on, and a call succeeds exactly
\* when the server version meets it
MinimumStored(is_malformed) ==
    /\ (pc # "start" /\ IsStr(min_arg) /\ is_malformed)
          => /\ pc = "declaration_failed"
             /\ Raises(outcome, "VersionSyntaxError")
             /\ min_version = None /\ call_args = None
             /\ invoked = 0 /\ comparisons = 0
    /\ (pc \in {"declared", "called"} /\ IsVersion(min_arg)) => IsNormalizedMinimum
    /\ (pc = "called" /\ IsVersion(min_arg) /\ hasattr(instance) /\ IsVersion(instance.attr))
          => /\ comparisons = 1
             /\ IsOk(outcome) <=> ServerMeets

\* What holds of every step: a call follows a declaration that succeeded
\* and leaves the stored minimum as it is; a failed declaration is followed
\* by nothing
MinimumKept ==
    /\ pc' = "called" => pc \in {"declared", "called"} /\ min_version' = min_version
    /\ pc # "start" => min_version' = min_version
    /\ pc # "declaration_failed"

\* C22: requires_version normalizes the minimum version once, at the
\* declaration: a malformed text raises VersionSyntaxError there and no
\* call follows; every call compares the server version with the stored
\* tuple, and no call, passing or refused, changes it.
C22_NormalizedOnce == [] MinimumStored(IsMalformed(min_arg)) /\ [][MinimumKept]_vars

\* ... which holds but for the texts with a dev marker of more than
\* MaxDevLen characters
C22_ButOversizedDev ==
    [] MinimumStored(IsMalformed(min_arg) /\ ~ HasOversizedDev(min_arg))
    /\ [][MinimumKept]_vars

\* A method declared with "0.0.devdev1", and refused at the call with
\* VersionSyntaxError
C22_RaisedAtCall ==
    /\ pc = "called"
    /\ min_arg = DottedText(<<<<"0">>, <<"0">>, LongDev>>)
    /\ Raises(outcome, "VersionSyntaxError")

\* A second call on a method declared with "0.1": the stored minimum is
\* still (0, 1, 0)
C22_Witness ==
    /\ pc = "called"
    /\ min_arg = DottedText(<<<<"0">>, <<"1">>>>)
    /\ min_version = PyTuple(<<myint(0), myint(1), myint(0)>>)
    /\ instance = MockupServer(PyTuple(<<PyInt(0), PyInt(0), PyInt(1)>>))
    /\ Raises(outcome, "VersionError")
    /\ call_args.args = <<PyInt(1)>>

\* The declaration with "0.-1" failed
C22_DeclarationFailed ==
    /\ pc = "declaration_failed"
    /\ min_arg = PyStr(<<"0", ".", "-", "1">>)
    /\ Raises(outcome, "VersionSyntaxError")

----------------------------------------------------------------------------
(* The texts that VersionNumber accepts, in comparisons *)

\* C23: every text that VersionNumber accepts as a component that is not a
\* number can be compared with <, <=, > and >= against every numeric
\* component, in both operand orders, without raising, and is above it.
C23_AcceptedTextAboveNumeric ==
    (pc = "VersionNumber" /\ IsOk(result)) =>
        /\ (result.val.x.kind = "mystr" /\ result.val.y.kind = "myint") =>
                /\ result.val.is["gt"] = Ok(TRUE) /\ result.val.is["ge"] = Ok(TRUE)
                /\ result.val.is["lt"] = Ok(FALSE) /\ result.val.is["le"] = Ok(FALSE)
        /\ (result.val.x.kind = "myint" /\ result.val.y.kind = "mystr") =>
                /\ result.val.is["lt"] = Ok(TRUE) /\ result.val.is["le"] = Ok(TRUE)
                /\ result.val.is["gt"] = Ok(FALSE) /\ result.val.is["ge"] = Ok(FALSE)

\* VersionNumber("DEV") is accepted, and raises ValueError under each
\* ordering operator against VersionNumber(1)
C23_UpperDevRaises ==
    /\ pc = "VersionNumber"
    /\ server_version = PyStr(UpperDev)
    /\ required_version = PyTuple(<<PyInt(1)>>)
    /\ IsOk(result)
    /\ result.val.x = mystr(UpperDev)
    /\ \A op \in OrderingOperators : Raises(result.val.is[op], "ValueError")

====
